---- MODULE Spec2Model ----
(***************************************************************************)
(* Lucky-draw wheel (src/src/main.js): the PhysicsWheel gesture tracker,   *)
(* motion integrator and outcome resolver.                                 *)
(*                                                                         *)
(* Numbers are fixed point.  Angles are whole micro-radians, angular       *)
(* velocities whole milli-radians per second, times whole milliseconds.    *)
(* Products and quotients that are not whole are truncated toward zero.    *)
(***************************************************************************)
EXTENDS Integers, Sequences, FiniteSets, Bags, TLC

(* ------------------------------------------------------------------ *)
(* Program constants                                                  *)
(* ------------------------------------------------------------------ *)

\* Math.PI in micro-radians.  The value is the multiple of 27720/2 nearest
\* to 3141593 from above that keeps 2*Pi/n whole for every n in 2..12.
Pi == 3146220

TwoPi == 2 * Pi

\* this.friction = 0.985, as a per-mille factor
FrictionPerMille == 985

\* this.minVelocity = 0.001 rad/s, in mrad/s
MinVelocity == 1

\* the spin threshold of handleEnd, 3 rad/s, in mrad/s
SpinThreshold == 3000

\* const maxVelocity = 50 rad/s, in mrad/s
MaxVelocity == 50000

\* the release damping  angularVelocity *= 0.8, in tenths
DampingTenths == 8

\* the fixed integration step 0.016 s: mrad/s * 16 = micro-radians
StepMicros == 16

\* the trailing window of handleMove, 100 ms
WindowMs == 100

\* half the width of the perturbation (Math.random() - 0.5) * 5, in mrad/s
HalfPerturbation == 2500

\* this.radius (canvas half-size minus 4), in pointer units
Radius == 2

\* the editor keeps at least 2 prizes (handlePrizeEdit) ...
MinPrizes == 2

\* ... and at most 12 (addPrize)
MaxPrizes == 12

(* ------------------------------------------------------------------ *)
(* Bounds of the exploration                                          *)
(* ------------------------------------------------------------------ *)

\* accepted handleMove calls per run
MaxMoves == 2

\* accepted handleStart calls per run
MaxDrags == 1

\* frames in which a released wheel that is not spinning keeps moving
MaxCoastFrames == 2

\* the same two bounds for the runs checked for liveness
MaxLiveMoves == 1

MaxLiveDrags == 1

\* rotations resolved per segment when the rotation sweeps a full turn
SubSteps == 4

\* whole turns added to or taken from a rotation
MaxTurns == 2

(* ------------------------------------------------------------------ *)
(* Arithmetic helpers                                                 *)
(* ------------------------------------------------------------------ *)

Abs(x) == IF x < 0 THEN -x ELSE x

\* JavaScript division of numbers, truncated toward zero to the fixed point
TruncDiv(a, b) ==
    IF (a >= 0) = (b > 0) THEN Abs(a) \div Abs(b) ELSE -(Abs(a) \div Abs(b))

\* JavaScript's % operator: the remainder has the sign of the dividend
JsRem(a, b) == a - b * TruncDiv(a, b)

RECURSIVE SumVelocity(_)
\* velocityHistory.reduce((sum, v) => sum + v.velocity, 0)
SumVelocity(h) ==
    IF h = <<>> THEN 0 ELSE Head(h).velocity + SumVelocity(Tail(h))

\* Array.prototype.filter, order preserving
RECURSIVE Filter(_, _)
Filter(h, cutoff) ==
    IF h = <<>> THEN <<>>
    ELSE IF Head(h).time > cutoff
         THEN <<Head(h)>> \o Filter(Tail(h), cutoff)
         ELSE Filter(Tail(h), cutoff)

(* ------------------------------------------------------------------ *)
(* Inputs                                                             *)
(* ------------------------------------------------------------------ *)

\* Pointer positions relative to the wheel centre (getEventPos): inside the
\* disk and on its rim at angle 0, and outside the disk at angle PI/4.
Positions == { [x |-> 1, y |-> 0], [x |-> 2, y |-> 0], [x |-> 2, y |-> 2] }

\* Milliseconds between two readings of performance.now() during a drag: a
\* quick move and a slow one.
Delays == {50, 400}

\* Milliseconds from the last reading to the next press.
PressDelays == {400}

\* (Math.random() - 0.5) * 5 with Math.random() in [0, 1), in mrad/s.
Perturbations == {-2500, 2499}

\* DEFAULT_PRIZES: six entries
DefaultPrizes == <<"a", "b", "c", "d", "e", "f">>

\* Prize lists handed to updatePrizes.
PrizeLists == { DefaultPrizes, <<"a", "b", "c">> }

\* the rows  INSERT INTO prizes (name, sort_order) VALUES (list[i].name, i)
\* makes of a list, one after the other
rowsOf(list) ==
    SetToBag({ [name |-> list[i], sort_order |-> i] : i \in 1 .. Len(list) })

VARIABLES
    rotation,          \* this.rotation
    angularVelocity,   \* this.angularVelocity
    isDragging,        \* this.isDragging
    isSpinning,        \* this.isSpinning
    lastAngle,         \* this.lastAngle
    lastTime,          \* this.lastTime
    velocityHistory,   \* this.velocityHistory
    wheelPrizes,       \* this.prizes
    spinEndCalls,      \* every onSpinEnd call so far: the index passed, with
                       \* the rotation and the prize count at the call
    spinsEntered,      \* releases that set isSpinning
    moves,             \* accepted moves counted against the bound of a run
    drags,             \* accepted starts so far
    coastFrames,       \* frames the wheel moved unspun since the last press
    sweep,             \* the resolver applied along a sweep of the rotation
    probe,             \* the resolver applied to a shifted rotation
    prizes,            \* the global prizes array, as a sequence of names
    aliased,           \* wheel.prizes and prizes are one and the same array
    saving,            \* savePrizes calls waiting on savePrizesToDB
    resultsShown,      \* onSpinEnd timers that have fired
    pendingSaves,      \* addToHistory calls waiting on saveHistoryRecord
    history,           \* the global history array, newest first
    recordsAdded,      \* history.unshift calls so far
    thrown,            \* showResult calls ended by a TypeError
    edits,             \* editor operations so far
    captures,          \* the prize object each onSpinEnd call took from the
                       \* global array: its row there now (0 when it is in
                       \* the array no longer, or is undefined), its name
                       \* now, the name showResult displayed and the name
                       \* addToHistory recorded
    releasedAt,        \* performance.now() when handleEnd last released a drag
    clearing,          \* clearHistory calls waiting on clearHistoryFromDB
    wallClock,         \* Date.now() as last read, in ms
    table,             \* the rows of the prizes table of the database, as a
                       \* bag of name and sort_order
    requests           \* the requests /api/prizes has received, each with
                       \* its place in onRequest and its response

vars == << rotation, angularVelocity, isDragging, isSpinning, lastAngle,
           lastTime, velocityHistory, wheelPrizes, spinEndCalls,
           spinsEntered, moves, drags, coastFrames, sweep, probe, prizes,
           aliased, saving, resultsShown, pendingSaves, history, recordsAdded,
           thrown, edits, captures, releasedAt, clearing, wallClock,
           table, requests >>

\* the exploration counters
counters == << moves, drags, coastFrames >>

\* the resolver's own runs
resolver == << sweep, probe >>

\* what only a run of the resolver or a timed release sets
aside == << resolver, releasedAt, wallClock, table, requests >>

\* the application around the wheel, but for the captured prizes
shell == << prizes, aliased, saving, resultsShown, pendingSaves, history,
           recordsAdded, thrown, edits, clearing >>

\* the application around the wheel
app == << shell, captures >>

NoSweep == [count |-> 0]

NoProbe == [kind |-> "none"]

\* everything but the exploration counters
program == << rotation, angularVelocity, isDragging, isSpinning, lastAngle,
             lastTime, velocityHistory, wheelPrizes, spinEndCalls,
             spinsEntered >>

\* the fields of the wheel itself
wheelState == << rotation, angularVelocity, isDragging, isSpinning,
                 lastAngle, lastTime, velocityHistory >>

(* ------------------------------------------------------------------ *)
(* PhysicsWheel                                                       *)
(* ------------------------------------------------------------------ *)

\* Math.atan2(pos.y, pos.x) on the axes and diagonals
getAngle(pos) ==
    CASE pos.x = 0 /\ pos.y = 0 -> 0
      [] pos.y = 0 /\ pos.x > 0 -> 0
      [] pos.y = 0 /\ pos.x < 0 -> Pi
      [] pos.x = 0 /\ pos.y > 0 -> Pi \div 2
      [] pos.x = 0 /\ pos.y < 0 -> -(Pi \div 2)
      [] pos.x > 0 /\ pos.y = pos.x -> Pi \div 4
      [] pos.x > 0 /\ pos.y = -pos.x -> -(Pi \div 4)
      [] pos.x < 0 /\ pos.y = -pos.x -> 3 * (Pi \div 4)
      [] pos.x < 0 /\ pos.y = pos.x -> -(3 * (Pi \div 4))

\* dist > this.radius, with dist = sqrt(x*x + y*y)
OutsideDisk(pos) == pos.x * pos.x + pos.y * pos.y > Radius * Radius

\* constructor
Init ==
    /\ rotation = 0
    /\ angularVelocity = 0
    /\ isDragging = FALSE
    /\ isSpinning = FALSE
    /\ lastAngle = 0
    /\ lastTime = 0
    /\ velocityHistory = <<>>
    /\ wheelPrizes = DefaultPrizes
    /\ spinEndCalls = <<>>
    /\ spinsEntered = 0
    /\ moves = 0
    /\ drags = 0
    /\ coastFrames = 0
    /\ sweep = NoSweep
    /\ probe = NoProbe
    /\ prizes = DefaultPrizes
    /\ aliased = TRUE
    /\ saving = 0
    /\ resultsShown = 0
    /\ pendingSaves = <<>>
    /\ history = <<>>
    /\ recordsAdded = 0
    /\ thrown = 0
    /\ edits = 0
    /\ captures = <<>>
    /\ releasedAt = 0
    /\ clearing = 0
    /\ wallClock = 0
    /\ table = rowsOf(DefaultPrizes)
    /\ requests = <<>>

\* handleStart without its isSpinning test
handleStartWhileSpinning(pos, d) ==
    IF OutsideDisk(pos)
    THEN UNCHANGED program
    ELSE /\ isDragging' = TRUE
         /\ lastAngle' = getAngle(pos)
         /\ lastTime' = lastTime + d
         /\ velocityHistory' = <<>>
         /\ angularVelocity' = 0
         /\ UNCHANGED << rotation, isSpinning, wheelPrizes, spinEndCalls,
                         spinsEntered >>

\* handleStart without its radius test
handleStartAnywhere(pos, d) ==
    IF isSpinning
    THEN UNCHANGED program
    ELSE /\ isDragging' = TRUE
         /\ lastAngle' = getAngle(pos)
         /\ lastTime' = lastTime + d
         /\ velocityHistory' = <<>>
         /\ angularVelocity' = 0
         /\ UNCHANGED << rotation, isSpinning, wheelPrizes, spinEndCalls,
                         spinsEntered >>

\* handleStart, the event arriving d ms after the last clock reading
handleStart(pos, d) ==
    IF isSpinning \/ OutsideDisk(pos)
    THEN UNCHANGED program
    ELSE /\ isDragging' = TRUE
         /\ lastAngle' = getAngle(pos)
         /\ lastTime' = lastTime + d
         /\ velocityHistory' = <<>>
         /\ angularVelocity' = 0
         /\ UNCHANGED << rotation, isSpinning, wheelPrizes, spinEndCalls,
                         spinsEntered >>

\* deltaAngle without the wrap-around corrections
deltaAngleUnwrapped(currentAngle, last) == currentAngle - last

\* deltaAngle after the two wrap-around corrections
deltaAngle(currentAngle, last) ==
    LET raw == currentAngle - last
        d1 == IF raw > Pi THEN raw - TwoPi ELSE raw
    IN  IF d1 < -Pi THEN d1 + TwoPi ELSE d1

\* the sample window after a move, without the eviction
pushSampleUnfiltered(h, delta, currentTime, last) ==
    LET deltaTime == currentTime - last
    IN  IF deltaTime > 0
        THEN Append(h, [velocity |-> TruncDiv(delta, deltaTime),
                        time |-> currentTime])
        ELSE h

\* the sample window after a move at currentTime
pushSample(h, delta, currentTime, last) ==
    LET deltaTime == currentTime - last
    IN  IF deltaTime > 0
        THEN Filter(Append(h, [velocity |-> TruncDiv(delta, deltaTime),
                               time |-> currentTime]),
                    currentTime - WindowMs)
        ELSE h

\* handleMove without its isDragging test
handleMoveUnguarded(pos, d) ==
    /\ LET currentAngle == getAngle(pos)
           currentTime == lastTime + d
           delta == deltaAngle(currentAngle, lastAngle)
       IN  /\ rotation' = rotation + delta
           /\ velocityHistory' =
                  pushSample(velocityHistory, delta, currentTime, lastTime)
           /\ lastAngle' = currentAngle
           /\ lastTime' = currentTime
    /\ UNCHANGED << angularVelocity, isDragging, isSpinning, wheelPrizes,
                    spinEndCalls, spinsEntered >>

\* handleMove
handleMove(pos, d) ==
    IF ~isDragging
    THEN UNCHANGED program
    ELSE /\ LET currentAngle == getAngle(pos)
                currentTime == lastTime + d
                delta == deltaAngle(currentAngle, lastAngle)
            IN  /\ rotation' = rotation + delta
                /\ velocityHistory' =
                       pushSample(velocityHistory, delta, currentTime, lastTime)
                /\ lastAngle' = currentAngle
                /\ lastTime' = currentTime
         /\ UNCHANGED << angularVelocity, isDragging, isSpinning, wheelPrizes,
                         spinEndCalls, spinsEntered >>

\* no clamp at all
clampNone(v) == v

\* Math.max(-maxVelocity, Math.min(maxVelocity, v))
clamp(v) ==
    IF v > MaxVelocity THEN MaxVelocity
    ELSE IF v < -MaxVelocity THEN -MaxVelocity ELSE v

\* the velocity handleEnd computes from a non-empty window, before the
\* threshold test
releaseVelocity(h) ==
    clamp(TruncDiv(TruncDiv(SumVelocity(h), Len(h)) * DampingTenths, 10))

\* the threshold test against minVelocity instead of 3
entersSpinWhenMoving(v) == Abs(v) > MinVelocity

\* Math.abs(this.angularVelocity) > 3
entersSpin(v) == Abs(v) > SpinThreshold

\* handleEnd without  this.isDragging = false
handleEndStillDragging(p) ==
    IF ~isDragging
    THEN UNCHANGED program
    ELSE /\ IF Len(velocityHistory) > 0
            THEN LET v == releaseVelocity(velocityHistory)
                 IN  IF entersSpin(v)
                     THEN /\ isSpinning' = TRUE
                          /\ angularVelocity' = v + p
                          /\ spinsEntered' = spinsEntered + 1
                     ELSE /\ angularVelocity' = v
                          /\ UNCHANGED << isSpinning, spinsEntered >>
            ELSE UNCHANGED << angularVelocity, isSpinning, spinsEntered >>
         /\ UNCHANGED << isDragging, rotation, lastAngle, lastTime,
                         velocityHistory, wheelPrizes, spinEndCalls >>

\* handleEnd, with the value (Math.random() - 0.5) * 5 would take
handleEnd(p) ==
    IF ~isDragging
    THEN UNCHANGED program
    ELSE /\ isDragging' = FALSE
         /\ IF Len(velocityHistory) > 0
            THEN LET v == releaseVelocity(velocityHistory)
                 IN  IF entersSpin(v)
                     THEN /\ isSpinning' = TRUE
                          /\ angularVelocity' = v + p
                          /\ spinsEntered' = spinsEntered + 1
                     ELSE /\ angularVelocity' = v
                          /\ UNCHANGED << isSpinning, spinsEntered >>
            ELSE UNCHANGED << angularVelocity, isSpinning, spinsEntered >>
         /\ UNCHANGED << rotation, lastAngle, lastTime, velocityHistory,
                         wheelPrizes, spinEndCalls >>

\* x % 2PI alone, which keeps the sign of x
normalizeOnce(x) == JsRem(x, TwoPi)

\* (x % 2PI) + 2PI, without the second remainder
normalizeShifted(x) == JsRem(x, TwoPi) + TwoPi

\* ((x % 2PI) + 2PI) % 2PI
normalize(x) == JsRem(JsRem(x, TwoPi) + TwoPi, TwoPi)

\* getWinningIndex measuring from angle 0 instead of the pointer
getWinningIndexNoPointer(rot, n) == (normalize(-rot) * n) \div TwoPi

\* getWinningIndex with Math.round in place of Math.floor
getWinningIndexRounded(rot, n) ==
    (2 * normalize(-(Pi \div 2) - rot) * n + TwoPi) \div (2 * TwoPi)

\* getWinningIndex with the pointer at the bottom, +PI/2
getWinningIndexPointerDown(rot, n) ==
    (normalize(Pi \div 2 - rot) * n) \div TwoPi

\* getWinningIndex: floor(normalized / segmentAngle) with
\* segmentAngle = 2PI / prizes.length, i.e. floor(normalized * n / 2PI)
getWinningIndex(rot, n) ==
    LET pointerAngle == -(Pi \div 2)
        normalized == normalize(pointerAngle - rot)
    IN  (normalized * n) \div TwoPi

\* angularVelocity *= friction
applyFriction(v) == TruncDiv(v * FrictionPerMille, 1000)

\* the first branch of update: motion under friction
integrates == ~isDragging /\ Abs(angularVelocity) > MinVelocity

\* a missing array element
Undefined == "undefined"

\* wheel.onSpinEnd: const prize = prizes[winningIndex], handed to the timer
\* that calls showResult
onSpinEnd(winningIndex) ==
    IF winningIndex < Len(prizes) THEN prizes[winningIndex + 1] ELSE Undefined

\* no name yet
None == "none"

\* the object  prizes[winningIndex]  as onSpinEnd takes it
capture(winningIndex) ==
    [row |-> IF winningIndex < Len(prizes) THEN winningIndex + 1 ELSE 0,
     name |-> onSpinEnd(winningIndex),
     shown |-> None,
     recorded |-> None]

\* the settle test without isSpinning
settlesUnspun == Abs(angularVelocity) <= MinVelocity

\* the settle test against zero instead of minVelocity
settlesAtZero == isSpinning /\ angularVelocity = 0

\* the second branch of update: the settle transition
settles == isSpinning /\ Abs(angularVelocity) <= MinVelocity

\* update that moves the wheel by the velocity before friction
updateRotatesFirst ==
    IF integrates
    THEN /\ rotation' = rotation + angularVelocity * StepMicros
         /\ angularVelocity' = applyFriction(angularVelocity)
         /\ UNCHANGED << isDragging, isSpinning, lastAngle, lastTime,
                         velocityHistory, wheelPrizes, spinEndCalls,
                         spinsEntered, captures >>
    ELSE IF settles
    THEN /\ angularVelocity' = 0
         /\ isSpinning' = FALSE
         /\ spinEndCalls' =
                Append(spinEndCalls,
                       [index |-> getWinningIndex(rotation, Len(wheelPrizes)),
                        rotation |-> rotation,
                        count |-> Len(wheelPrizes),
                        drawn |-> wheelPrizes[
                            getWinningIndex(rotation, Len(wheelPrizes)) + 1],
                        prize |-> onSpinEnd(
                            getWinningIndex(rotation, Len(wheelPrizes)))])
         /\ captures' =
                Append(captures,
                       capture(getWinningIndex(rotation, Len(wheelPrizes))))
         /\ UNCHANGED << rotation, isDragging, lastAngle, lastTime,
                         velocityHistory, wheelPrizes, spinsEntered >>
    ELSE UNCHANGED << program, captures >>

\* update, one animation frame
update ==
    IF integrates
    THEN /\ angularVelocity' = applyFriction(angularVelocity)
         /\ rotation' = rotation + applyFriction(angularVelocity) * StepMicros
         /\ UNCHANGED << isDragging, isSpinning, lastAngle, lastTime,
                         velocityHistory, wheelPrizes, spinEndCalls,
                         spinsEntered, captures >>
    ELSE IF settles
    THEN /\ angularVelocity' = 0
         /\ isSpinning' = FALSE
         /\ spinEndCalls' =
                Append(spinEndCalls,
                       [index |-> getWinningIndex(rotation, Len(wheelPrizes)),
                        rotation |-> rotation,
                        count |-> Len(wheelPrizes),
                        drawn |-> wheelPrizes[
                            getWinningIndex(rotation, Len(wheelPrizes)) + 1],
                        prize |-> onSpinEnd(
                            getWinningIndex(rotation, Len(wheelPrizes)))])
         /\ captures' =
                Append(captures,
                       capture(getWinningIndex(rotation, Len(wheelPrizes))))
         /\ UNCHANGED << rotation, isDragging, lastAngle, lastTime,
                         velocityHistory, wheelPrizes, spinsEntered >>
    ELSE UNCHANGED << program, captures >>

\* updatePrizes that also puts the wheel back at rotation 0
updatePrizesResetting(newPrizes) ==
    /\ wheelPrizes' = newPrizes
    /\ rotation' = 0
    /\ UNCHANGED << angularVelocity, isDragging, isSpinning, lastAngle,
                    lastTime, velocityHistory, spinEndCalls, spinsEntered >>

\* updatePrizes
updatePrizes(newPrizes) ==
    /\ wheelPrizes' = newPrizes
    /\ UNCHANGED << rotation, angularVelocity, isDragging, isSpinning,
                    lastAngle, lastTime, velocityHistory, spinEndCalls,
                    spinsEntered >>

(* ------------------------------------------------------------------ *)
(* The wheel driven by gestures, frames and prize updates             *)
(* ------------------------------------------------------------------ *)

\* A pointer press.  A handler that returns at once is given one input only.
StartUpTo(maxDrags) ==
    IF isSpinning
    THEN /\ handleStart([x |-> 0, y |-> 0], 0)
         /\ UNCHANGED << counters, aside, app >>
    ELSE \E pos \in Positions, d \in PressDelays :
            /\ handleStart(pos, d)
            /\ UNCHANGED << aside, app >>
            /\ IF OutsideDisk(pos)
               THEN UNCHANGED counters
               ELSE /\ drags < maxDrags
                    /\ drags' = drags + 1
                    /\ coastFrames' = 0
                    /\ UNCHANGED moves

\* A pointer move.
MoveUpTo(maxMoves) ==
    IF ~isDragging
    THEN /\ handleMove([x |-> 0, y |-> 0], 0)
         /\ UNCHANGED << counters, aside, app >>
    ELSE \E pos \in Positions, d \in Delays :
            /\ moves < maxMoves
            /\ handleMove(pos, d)
            /\ moves' = moves + 1
            /\ UNCHANGED << drags, coastFrames, aside, app >>

Start == StartUpTo(MaxDrags)

Move == MoveUpTo(MaxMoves)

\* A pointer release.
End ==
    IF ~isDragging
    THEN handleEnd(0) /\ UNCHANGED << counters, aside, app >>
    ELSE \E p \in Perturbations :
            handleEnd(p) /\ UNCHANGED << counters, aside, app >>

\* the wheel moves without spinning: a release below the spin threshold
coasts == integrates /\ ~isSpinning

\* An animation frame.
Tick ==
    /\ coasts => coastFrames < MaxCoastFrames
    /\ update
    /\ coastFrames' = IF coasts THEN coastFrames + 1 ELSE coastFrames
    /\ UNCHANGED << moves, drags, aside, shell >>

\* The settings dialog saves a prize list: the edited global array goes to
\* the wheel.  A row whose name is as before holds the object it held.
UpdatePrizes ==
    \E np \in PrizeLists :
        /\ updatePrizes(np)
        /\ prizes' = np
        /\ aliased' = TRUE
        /\ captures' =
              [k \in 1 .. Len(captures) |->
                  IF /\ captures[k].row \in 1 .. Len(np)
                     /\ np[captures[k].row] = captures[k].name
                  THEN captures[k]
                  ELSE [captures[k] EXCEPT !.row = 0]]
        /\ UNCHANGED << counters, aside, saving, resultsShown,
                        pendingSaves, history, recordsAdded, thrown, edits,
                        clearing >>

Next == Start \/ Move \/ End \/ Tick \/ UpdatePrizes

Spec == Init /\ [][Next]_vars

LiveStart == StartUpTo(MaxLiveDrags)

LiveMove == MoveUpTo(MaxLiveMoves)

LiveNext == LiveStart \/ LiveMove \/ End \/ Tick \/ UpdatePrizes

\* requestAnimationFrame calls update again after every frame
LiveSpec == Init /\ [][LiveNext]_vars /\ WF_vars(Tick)

(* ------------------------------------------------------------------ *)
(* The outcome resolver on its own                                    *)
(* ------------------------------------------------------------------ *)

PrizeCounts == MinPrizes .. MaxPrizes

\* Rotations a sweep starts from: a segment boundary, zero, and one
\* micro-radian off either, each with whole turns added or taken away.
SweepStarts ==
    { base + t * TwoPi : base \in {-(Pi \div 2), 0, 1, -1},
                         t \in -MaxTurns .. MaxTurns }

\* the k-th rotation of a sweep of one turn in n * SubSteps steps
sweepRotation(start, n, k) == start + (k * TwoPi) \div (n * SubSteps)

\* one more rotation i resolved to, in the tally of a sweep
tally(seen, n, i) == [j \in 0 .. n - 1 |-> seen[j] + IF j = i THEN 1 ELSE 0]

ResolveInit ==
    /\ rotation = 0
    /\ angularVelocity = 0
    /\ isDragging = FALSE
    /\ isSpinning = FALSE
    /\ lastAngle = 0
    /\ lastTime = 0
    /\ velocityHistory = <<>>
    /\ wheelPrizes = DefaultPrizes
    /\ spinEndCalls = <<>>
    /\ spinsEntered = 0
    /\ moves = 0
    /\ drags = 0
    /\ coastFrames = 0
    /\ probe = NoProbe
    /\ prizes = DefaultPrizes
    /\ aliased = TRUE
    /\ saving = 0
    /\ resultsShown = 0
    /\ pendingSaves = <<>>
    /\ history = <<>>
    /\ recordsAdded = 0
    /\ thrown = 0
    /\ edits = 0
    /\ captures = <<>>
    /\ releasedAt = 0
    /\ clearing = 0
    /\ wallClock = 0
    /\ table = rowsOf(DefaultPrizes)
    /\ requests = <<>>
    /\ \E n \in PrizeCounts, start \in SweepStarts :
          sweep = [count |-> n, start |-> start, k |-> 0, rotation |-> start,
                   index |-> getWinningIndex(start, n),
                   seen |-> tally([j \in 0 .. n - 1 |-> 0], n,
                                  getWinningIndex(start, n)),
                   runs |-> 0]

\* resolve the next rotation of the sweep; the last step closes the turn
SweepOn ==
    /\ sweep.k < sweep.count * SubSteps
    /\ LET k == sweep.k + 1
           r == sweepRotation(sweep.start, sweep.count, k)
           i == getWinningIndex(r, sweep.count)
       IN  sweep' = [sweep EXCEPT
                       !.k = k, !.rotation = r, !.index = i,
                       !.seen = IF k < sweep.count * SubSteps
                                THEN tally(@, sweep.count, i) ELSE @,
                       !.runs = IF i = sweep.index THEN @ ELSE @ + 1]
    /\ probe' = NoProbe
    /\ UNCHANGED << program, counters, app, releasedAt, wallClock, table,
                    requests >>

\* resolve the current rotation with whole turns added or taken away
ProbeTurn ==
    /\ \E t \in (-MaxTurns .. MaxTurns) \ {0} :
          probe' = [kind |-> "turn",
                    rotation |-> sweep.rotation + t * TwoPi,
                    index |-> getWinningIndex(sweep.rotation + t * TwoPi,
                                              sweep.count)]
    /\ UNCHANGED << program, counters, sweep, app, releasedAt, wallClock,
                    table, requests >>

\* resolve the current rotation advanced by one segment
ProbeSegment ==
    /\ probe' = [kind |-> "segment",
                 rotation |-> sweep.rotation + TwoPi \div sweep.count,
                 index |-> getWinningIndex(
                               sweep.rotation + TwoPi \div sweep.count,
                               sweep.count)]
    /\ UNCHANGED << program, counters, sweep, app, releasedAt, wallClock,
                    table, requests >>

ResolveNext == SweepOn \/ ProbeTurn \/ ProbeSegment

ResolveSpec == ResolveInit /\ [][ResolveNext]_vars

(* ------------------------------------------------------------------ *)
(* The application: prize editor, result timer and history            *)
(* ------------------------------------------------------------------ *)

\* WHEEL_COLORS.length
NumColors == 12

\* addToHistory keeps the newest 50 records
HistoryLimit == 50

\* editor operations per run, with the wheel idle
MaxEdits == 2

\* editor operations per run, with the wheel in use
MaxAppEdits == 2

\* clearHistory calls waiting at a time
MaxClears == 1

\* `奖项${n}`
newPrizeName(n) == "prize" \o ToString(n)

\* a list of n prizes as loadPrizes may return it
storedList(n) == [i \in 1 .. n |-> newPrizeName(i)]

\* the lists the application starts from
InitialLists == { DefaultPrizes } \cup { storedList(n) : n \in PrizeCounts }

\* what the user types into a name field
TypedNames == { "x", "" }

\* the rows of the editor the user acts on, counted from 1
EditRows(list) == { 1, Len(list) }

\* prizes.every(p => p.name.trim())
allNamed(list) == \A i \in 1 .. Len(list) : list[i] # ""

\* Array.prototype.splice(index, 1), rows counted from 1
splice(list, index) ==
    SubSeq(list, 1, index - 1) \o SubSeq(list, index + 1, Len(list))

\* this.prizes after the global array became list by a change in place
seenByWheel(list) == IF aliased THEN list ELSE wheelPrizes

\* what no editor operation touches
beyondEditor ==
    << wheelState, spinEndCalls, spinsEntered, resultsShown, pendingSaves,
       history, recordsAdded, thrown, clearing >>

\* what no editor operation but a remove, a rename or a reset touches
beyondAdd == << beyondEditor, captures >>

\* what no history operation touches
beyondHistory == << program, prizes, aliased, saving >>

\* the captured objects once row index has left the global array
afterSplice(index) ==
    [k \in 1 .. Len(captures) |->
        IF captures[k].row = index
        THEN [captures[k] EXCEPT !.row = 0]
        ELSE IF captures[k].row > index
        THEN [captures[k] EXCEPT !.row = captures[k].row - 1]
        ELSE captures[k]]

\* the captured objects once the object in row index has the name value
afterRename(index, value) ==
    [k \in 1 .. Len(captures) |->
        IF captures[k].row = index
        THEN [captures[k] EXCEPT !.name = value]
        ELSE captures[k]]

\* the captured objects once the global names another array
afterReplace ==
    [k \in 1 .. Len(captures) |-> [captures[k] EXCEPT !.row = 0]]

\* addPrize without its limit of 12
addPrizeUnbounded ==
    /\ prizes' = Append(prizes, newPrizeName(Len(prizes) + 1))
    /\ wheelPrizes' = seenByWheel(prizes')
    /\ UNCHANGED << aliased, saving, beyondAdd >>

\* addPrize
addPrize ==
    IF Len(prizes) >= MaxPrizes
    THEN UNCHANGED << prizes, wheelPrizes, aliased, saving, beyondAdd >>
    ELSE /\ prizes' = Append(prizes, newPrizeName(Len(prizes) + 1))
         /\ wheelPrizes' = seenByWheel(prizes')
         /\ UNCHANGED << aliased, saving, beyondAdd >>

\* handlePrizeEdit on row index: a click on the row's remove button, or
\* input to its name field
handlePrizeEdit(index, action, value) ==
    IF action = "remove" /\ Len(prizes) > MinPrizes
    THEN /\ prizes' = splice(prizes, index)
         /\ wheelPrizes' = seenByWheel(prizes')
         /\ captures' = afterSplice(index)
         /\ UNCHANGED << aliased, saving, beyondEditor >>
    ELSE IF action = "input"
    THEN /\ prizes' = [prizes EXCEPT ![index] = value]
         /\ wheelPrizes' = seenByWheel(prizes')
         /\ captures' = afterRename(index, value)
         /\ UNCHANGED << aliased, saving, beyondEditor >>
    ELSE UNCHANGED << prizes, wheelPrizes, aliased, saving, beyondAdd >>

\* resetPrizes, once resetPrizesToDefault has answered: the global names a
\* new array of the defaults
resetPrizes(confirmed) ==
    IF confirmed
    THEN /\ prizes' = DefaultPrizes
         /\ aliased' = FALSE
         /\ captures' = afterReplace
         /\ UNCHANGED << wheelPrizes, saving, beyondEditor >>
    ELSE UNCHANGED << prizes, wheelPrizes, aliased, saving, beyondAdd >>

\* savePrizes up to  await savePrizesToDB(prizes)
savePrizes ==
    IF ~allNamed(prizes)
    THEN UNCHANGED << prizes, wheelPrizes, aliased, saving, beyondAdd >>
    ELSE /\ saving' = saving + 1
         /\ UNCHANGED << prizes, wheelPrizes, aliased, beyondAdd >>

\* savePrizes from  wheel.updatePrizes(prizes)  on
savePrizesResume ==
    /\ saving > 0
    /\ saving' = saving - 1
    /\ updatePrizes(prizes)
    /\ aliased' = TRUE
    /\ UNCHANGED << prizes, resultsShown, pendingSaves, history,
                    recordsAdded, thrown, captures, clearing >>

\* showResult(prize, colorIndex) up to the await in addToHistory, prize
\* being the object of that number in captures; prize.name of an undefined
\* prize throws
showResult(prize, colorIndex) ==
    IF captures[prize].name = Undefined
    THEN /\ thrown' = thrown + 1
         /\ UNCHANGED << pendingSaves, history, recordsAdded, captures,
                         clearing >>
    ELSE /\ captures' =
                [captures EXCEPT ![prize].shown = captures[prize].name]
         /\ pendingSaves' =
                Append(pendingSaves,
                       [prize |-> prize, color |-> colorIndex % NumColors])
         /\ UNCHANGED << thrown, history, recordsAdded, clearing >>

\* addToHistory from  const record = { name: prize.name, ... }  on,
\* without  history = history.slice(0, 50)
addToHistoryResumeUncut(i, d) ==
    LET prize == pendingSaves[i].prize
        record == [name |-> captures[prize].name,
                   color |-> pendingSaves[i].color,
                   timestamp |-> wallClock + d]
    IN  /\ wallClock' = wallClock + d
        /\ history' = << record >> \o history
        /\ captures' =
               [captures EXCEPT ![prize].recorded = captures[prize].name]
        /\ pendingSaves' = splice(pendingSaves, i)
        /\ recordsAdded' = recordsAdded + 1
        /\ UNCHANGED << thrown, resultsShown, clearing >>

\* addToHistory from  const record = { name: prize.name, ... }  on, with
\* Date.now() read d ms after its last reading
addToHistoryResume(i, d) ==
    LET prize == pendingSaves[i].prize
        record == [name |-> captures[prize].name,
                   color |-> pendingSaves[i].color,
                   timestamp |-> wallClock + d]
        longer == << record >> \o history
    IN  /\ wallClock' = wallClock + d
        /\ history' = IF Len(longer) > HistoryLimit
                      THEN SubSeq(longer, 1, HistoryLimit) ELSE longer
        /\ captures' =
               [captures EXCEPT ![prize].recorded = captures[prize].name]
        /\ pendingSaves' = splice(pendingSaves, i)
        /\ recordsAdded' = recordsAdded + 1
        /\ UNCHANGED << thrown, resultsShown, clearing >>

\* clearHistory up to  await clearHistoryFromDB()
clearHistory(confirmed) ==
    /\ clearing' = IF confirmed THEN clearing + 1 ELSE clearing
    /\ UNCHANGED << history, pendingSaves, recordsAdded, thrown,
                    resultsShown, captures >>

\* clearHistory from  history = []  on
clearHistoryResume ==
    /\ clearing > 0
    /\ clearing' = clearing - 1
    /\ history' = <<>>
    /\ UNCHANGED << pendingSaves, recordsAdded, thrown, resultsShown,
                    captures >>

\* An editor operation is one more of at most maxEdits.
counted(maxEdits) ==
    /\ edits < maxEdits
    /\ edits' = edits + 1
    /\ UNCHANGED << counters, aside >>

AddPrizeUpTo(maxEdits) == addPrize /\ counted(maxEdits)

EditPrizeUpTo(maxEdits) ==
    \E index \in EditRows(prizes), action \in { "remove", "input" },
       value \in TypedNames :
        handlePrizeEdit(index, action, value) /\ counted(maxEdits)

ResetPrizesUpTo(maxEdits) ==
    \E confirmed \in BOOLEAN : resetPrizes(confirmed) /\ counted(maxEdits)

SavePrizesUpTo(maxEdits) == savePrizes /\ counted(maxEdits)

SaveDone == savePrizesResume /\ UNCHANGED << counters, aside, edits >>

\* The timer set by onSpinEnd fires; timers of equal delay fire in order.
ShowResult ==
    /\ resultsShown < Len(spinEndCalls)
    /\ resultsShown' = resultsShown + 1
    /\ showResult(resultsShown + 1, spinEndCalls[resultsShown + 1].index)
    /\ UNCHANGED << beyondHistory, counters, aside, edits >>

\* saveHistoryRecord answers one of the waiting addToHistory calls, the
\* clock d ms on.
HistorySavedAfter(ds) ==
    \E i \in 1 .. Len(pendingSaves), d \in ds :
        addToHistoryResume(i, d)
        /\ UNCHANGED << beyondHistory, counters, resolver, releasedAt,
                        table, requests, edits >>

HistorySaved == HistorySavedAfter({ 0 })

\* A click on the clear button, while fewer than MaxClears clears wait.
ClearHistory ==
    \E confirmed \in BOOLEAN :
        /\ confirmed => clearing < MaxClears
        /\ clearHistory(confirmed)
        /\ UNCHANGED << beyondHistory, counters, aside, edits >>

\* clearHistoryFromDB answers.
ClearDone ==
    clearHistoryResume /\ UNCHANGED << beyondHistory, counters, aside, edits >>

(* The editor on its own, the wheel at rest. *)

EditorInit ==
    /\ rotation = 0
    /\ angularVelocity = 0
    /\ isDragging = FALSE
    /\ isSpinning = FALSE
    /\ lastAngle = 0
    /\ lastTime = 0
    /\ velocityHistory = <<>>
    /\ spinEndCalls = <<>>
    /\ spinsEntered = 0
    /\ moves = 0
    /\ drags = 0
    /\ coastFrames = 0
    /\ sweep = NoSweep
    /\ probe = NoProbe
    /\ prizes \in InitialLists
    /\ wheelPrizes = prizes
    /\ aliased = TRUE
    /\ saving = 0
    /\ resultsShown = 0
    /\ pendingSaves = <<>>
    /\ history = <<>>
    /\ recordsAdded = 0
    /\ thrown = 0
    /\ edits = 0
    /\ captures = <<>>
    /\ releasedAt = 0
    /\ clearing = 0
    /\ wallClock = 0
    /\ table = rowsOf(DefaultPrizes)
    /\ requests = <<>>

AddPrize == AddPrizeUpTo(MaxEdits)

EditPrize == EditPrizeUpTo(MaxEdits)

ResetPrizes == ResetPrizesUpTo(MaxEdits)

SavePrizes == SavePrizesUpTo(MaxEdits)

EditorNext == AddPrize \/ EditPrize \/ ResetPrizes \/ SavePrizes \/ SaveDone

EditorSpec == EditorInit /\ [][EditorNext]_vars

(* The whole application: one gesture shape, the editor, the timer and   *)
(* the history saves.                                                    *)

\* the gesture: a press at angle 0, one move to PI/4 after 50 ms, release
AppPress == [x |-> 1, y |-> 0]

AppDrag == [x |-> 2, y |-> 2]

AppMoves == 1

AppDelay == 50

\* (Math.random() - 0.5) * 5 at Math.random() = 0
AppPerturbations == { -2500 }

AppStart ==
    IF isSpinning
    THEN handleStart(AppPress, 0) /\ UNCHANGED << counters, aside, app >>
    ELSE \E d \in PressDelays :
            /\ drags < MaxLiveDrags
            /\ handleStart(AppPress, d)
            /\ drags' = drags + 1
            /\ moves' = 0
            /\ coastFrames' = 0
            /\ UNCHANGED << aside, app >>

AppMove ==
    IF ~isDragging
    THEN handleMove(AppDrag, 0) /\ UNCHANGED << counters, aside, app >>
    ELSE /\ moves < AppMoves
         /\ handleMove(AppDrag, AppDelay)
         /\ moves' = moves + 1
         /\ UNCHANGED << drags, coastFrames, aside, app >>

AppEnd ==
    IF ~isDragging
    THEN handleEnd(0) /\ UNCHANGED << counters, aside, app >>
    ELSE \E p \in AppPerturbations :
            handleEnd(p) /\ UNCHANGED << counters, aside, app >>

AppAddPrize == AddPrizeUpTo(MaxAppEdits)

AppEditPrize == EditPrizeUpTo(MaxAppEdits)

AppResetPrizes == ResetPrizesUpTo(MaxAppEdits)

AppSavePrizes == SavePrizesUpTo(MaxAppEdits)

AppNext ==
    \/ AppStart \/ AppMove \/ AppEnd \/ Tick
    \/ AppAddPrize \/ AppEditPrize \/ AppResetPrizes \/ AppSavePrizes
    \/ SaveDone \/ ShowResult \/ HistorySaved

AppSpec == Init /\ [][AppNext]_vars

(* The history: spins of the one gesture shape, the result timer, the     *)
(* history saves and the clears, from a stored history.                   *)

\* a history of n records as loadHistory returns it: newest first
storedHistory(n) ==
    [j \in 1 .. n |-> [name |-> "a", color |-> 0, timestamp |-> n - j]]

\* the histories the application starts from: none, one short of the
\* limit, and at the limit
StoredHistories ==
    { storedHistory(n) : n \in { 0, HistoryLimit - 1, HistoryLimit } }

\* ms of the clock between two readings of Date.now()
ClockSteps == { 0, 1 }

HistoryInit ==
    /\ rotation = 0
    /\ angularVelocity = 0
    /\ isDragging = FALSE
    /\ isSpinning = FALSE
    /\ lastAngle = 0
    /\ lastTime = 0
    /\ velocityHistory = <<>>
    /\ wheelPrizes = DefaultPrizes
    /\ spinEndCalls = <<>>
    /\ spinsEntered = 0
    /\ moves = 0
    /\ drags = 0
    /\ coastFrames = 0
    /\ sweep = NoSweep
    /\ probe = NoProbe
    /\ prizes = DefaultPrizes
    /\ aliased = TRUE
    /\ saving = 0
    /\ resultsShown = 0
    /\ pendingSaves = <<>>
    /\ history \in StoredHistories
    /\ recordsAdded = 0
    /\ thrown = 0
    /\ edits = 0
    /\ captures = <<>>
    /\ releasedAt = 0
    /\ clearing = 0
    /\ wallClock = Len(history)
    /\ table = rowsOf(DefaultPrizes)
    /\ requests = <<>>

\* spins per run
MaxHistoryDrags == 2

HistoryStart ==
    IF isSpinning
    THEN handleStart(AppPress, 0) /\ UNCHANGED << counters, aside, app >>
    ELSE \E d \in PressDelays :
            /\ drags < MaxHistoryDrags
            /\ handleStart(AppPress, d)
            /\ drags' = drags + 1
            /\ moves' = 0
            /\ coastFrames' = 0
            /\ UNCHANGED << aside, app >>

HistorySavedLater == HistorySavedAfter(ClockSteps)

HistoryNext ==
    \/ HistoryStart \/ AppMove \/ AppEnd \/ Tick
    \/ ShowResult \/ HistorySavedLater \/ ClearHistory \/ ClearDone

HistorySpec == HistoryInit /\ [][HistoryNext]_vars

(* ------------------------------------------------------------------ *)
(* The gesture tracker on its own: presses, moves, timed releases     *)
(* ------------------------------------------------------------------ *)

\* pointer positions on three half-axes, inside the disk: the angles 0, PI
\* and -PI/2
GesturePositions ==
    { [x |-> 1, y |-> 0], [x |-> -1, y |-> 0], [x |-> 0, y |-> -1] }

\* milliseconds between two readings of the clock during a drag
GestureDelays == { 0, 50, 60 }

\* milliseconds from the last reading of the clock to the release
ReleaseDelays == { 20, 400 }

\* accepted moves per run
MaxGestureMoves == 3

\* accepted presses per run
MaxGestureDrags == 2

\* frames per run in which update changes the wheel
MaxGestureFrames == 1

\* A press, no earlier than the last release.
GestureStart ==
    IF isSpinning
    THEN /\ handleStart([x |-> 0, y |-> 0], 0)
         /\ UNCHANGED << counters, aside, app >>
    ELSE \E pos \in GesturePositions, d \in PressDelays :
            /\ drags < MaxGestureDrags
            /\ handleStart(pos, d + IF releasedAt > lastTime
                                    THEN releasedAt - lastTime ELSE 0)
            /\ drags' = drags + 1
            /\ UNCHANGED << moves, coastFrames, aside, app >>

GestureMove ==
    IF ~isDragging
    THEN /\ handleMove([x |-> 0, y |-> 0], 0)
         /\ UNCHANGED << counters, aside, app >>
    ELSE \E pos \in GesturePositions, d \in GestureDelays :
            /\ moves < MaxGestureMoves
            /\ handleMove(pos, d)
            /\ moves' = moves + 1
            /\ UNCHANGED << drags, coastFrames, aside, app >>

\* A release some time after the last move; handleEnd reads no clock.
GestureEnd ==
    IF ~isDragging
    THEN handleEnd(0) /\ UNCHANGED << counters, aside, app >>
    ELSE \E p \in Perturbations, d \in ReleaseDelays :
            /\ handleEnd(p)
            /\ releasedAt' = lastTime + d
            /\ UNCHANGED << counters, resolver, wallClock, table, requests,
                            app >>

GestureTick ==
    /\ (integrates \/ settles) => coastFrames < MaxGestureFrames
    /\ update
    /\ coastFrames' =
           IF integrates \/ settles THEN coastFrames + 1 ELSE coastFrames
    /\ UNCHANGED << moves, drags, aside, shell >>

GestureNext == GestureStart \/ GestureMove \/ GestureEnd \/ GestureTick

GestureSpec == Init /\ [][GestureNext]_vars

(* Releases near the spin threshold and beyond the clamp. *)

\* milliseconds between two readings of the clock: a quarter turn in 20 ms
\* is beyond the clamp, in 419 ms just above the spin threshold, in 420 ms
\* just below it
ThresholdDelays == { 20, 419, 420 }

\* accepted moves per run
MaxThresholdMoves == 2

ThresholdMove ==
    IF ~isDragging
    THEN /\ handleMove([x |-> 0, y |-> 0], 0)
         /\ UNCHANGED << counters, aside, app >>
    ELSE \E pos \in GesturePositions, d \in ThresholdDelays :
            /\ moves < MaxThresholdMoves
            /\ handleMove(pos, d)
            /\ moves' = moves + 1
            /\ UNCHANGED << drags, coastFrames, aside, app >>

ThresholdNext ==
    GestureStart \/ ThresholdMove \/ GestureEnd \/ GestureTick

ThresholdSpec == Init /\ [][ThresholdNext]_vars

(* ------------------------------------------------------------------ *)
(* The prizes endpoint (src/functions/api/prizes.js)                  *)
(* ------------------------------------------------------------------ *)

\* requests per run
MaxRequests == 2

\* the methods onRequest serves with the database
Methods == { "GET", "POST", "PUT" }

\* the prize lists a POST carries: one too short, and two that differ at
\* every row
PostedLists == { <<"x">>, <<"x", "y">>, <<"y", "x", "z">> }

\* no response yet
NoResponse == [status |-> 0, success |-> FALSE, data |-> EmptyBag]

\* Response.json(body, { status })
Response(status, success, data) ==
    [status |-> status, success |-> success, data |-> data]

\* responses sent so far
responded ==
    Cardinality({ r \in 1 .. Len(requests) : requests[r].pc = "done" })

\* request r returns response
returns(r, response) ==
    requests' = [requests EXCEPT ![r].pc = "done",
                                 ![r].response = response,
                                 ![r].order = responded + 1]

\* request r goes on to the await at pc
awaits(r, pc) == requests' = [requests EXCEPT ![r].pc = pc]

\* A request arrives; onRequest runs to its first await.
arrive(method, posted) ==
    /\ requests' =
          Append(requests,
                 [method |-> method,
                  prizes |-> posted,
                  pc |-> CASE method = "GET" -> "select"
                           [] method = "POST" -> "json"
                           [] method = "PUT" -> "delete",
                  i |-> 0,
                  response |-> NoResponse,
                  order |-> 0])
    /\ UNCHANGED table

\* GET: the SELECT runs and the rows found, or the defaults for none, are
\* returned in the order of sort_order
select(r) ==
    /\ requests[r].pc = "select"
    /\ returns(r, Response(200, TRUE,
                           IF table = EmptyBag
                           THEN rowsOf(DefaultPrizes) ELSE table))
    /\ UNCHANGED table

\* POST: request.json() has answered; a list of fewer than 2 prizes is
\* refused
json(r) ==
    /\ requests[r].pc = "json"
    /\ IF Len(requests[r].prizes) < MinPrizes
       THEN returns(r, Response(400, FALSE, EmptyBag))
       ELSE awaits(r, "delete")
    /\ UNCHANGED table

\* POST and PUT: DELETE FROM prizes runs
delete(r) ==
    /\ requests[r].pc = "delete"
    /\ table' = EmptyBag
    /\ awaits(r, "insert")

\* the list a request inserts: the posted one, or the defaults of a PUT
inserted(r) ==
    IF requests[r].method = "POST" THEN requests[r].prizes ELSE DefaultPrizes

\* POST and PUT: the next INSERT of the loop runs
insert(r) ==
    /\ requests[r].pc = "insert"
    /\ table' = table (+) SetToBag({ [name |-> inserted(r)[requests[r].i + 1],
                                      sort_order |-> requests[r].i + 1] })
    /\ requests' =
          [requests EXCEPT
              ![r].i = requests[r].i + 1,
              ![r].pc = IF requests[r].i + 1 = Len(inserted(r))
                        THEN "respond" ELSE "insert"]

\* POST and PUT: the loop is over and the response is returned
respond(r) ==
    /\ requests[r].pc = "respond"
    /\ returns(r, Response(200, TRUE,
                           IF requests[r].method = "PUT"
                           THEN rowsOf(DefaultPrizes) ELSE EmptyBag))
    /\ UNCHANGED table

\* what the endpoint leaves alone
client == << program, counters, resolver, releasedAt, wallClock, app >>

Arrive ==
    /\ Len(requests) < MaxRequests
    /\ \E method \in Methods :
          \E posted \in IF method = "POST" THEN PostedLists ELSE { <<>> } :
              arrive(method, posted)
    /\ UNCHANGED client

Select == \E r \in 1 .. Len(requests) : select(r) /\ UNCHANGED client

Json == \E r \in 1 .. Len(requests) : json(r) /\ UNCHANGED client

Delete == \E r \in 1 .. Len(requests) : delete(r) /\ UNCHANGED client

Insert == \E r \in 1 .. Len(requests) : insert(r) /\ UNCHANGED client

Respond == \E r \in 1 .. Len(requests) : respond(r) /\ UNCHANGED client

ServerNext == Arrive \/ Select \/ Json \/ Delete \/ Insert \/ Respond

ServerSpec == Init /\ [][ServerNext]_vars

(* ------------------------------------------------------------------ *)
(* Properties                                                         *)
(* ------------------------------------------------------------------ *)

\* C1: onSpinEnd has been called once for every release that entered
\* spinning, less the spin still under way; a call is made only by the step
\* that ends a spin, on a wheel at or below minVelocity, one call at a time.
\* So a release that did not enter spinning, and a frame after the settle,
\* call nothing.
SpinEndOncePerSpin ==
    /\ [](Len(spinEndCalls) = spinsEntered - (IF isSpinning THEN 1 ELSE 0))
    /\ [][spinEndCalls' # spinEndCalls =>
            /\ isSpinning /\ ~isSpinning'
            /\ Abs(angularVelocity) <= MinVelocity
            /\ Len(spinEndCalls') = Len(spinEndCalls) + 1
            /\ SubSeq(spinEndCalls', 1, Len(spinEndCalls)) = spinEndCalls]_vars

\* a spin has settled and further frames have left its one call alone
SettledOnce ==
    /\ ~isSpinning /\ ~isDragging
    /\ spinsEntered = 1
    /\ Len(spinEndCalls) = 1
    /\ angularVelocity = 0

\* C2: with update called again and again, a spinning wheel comes to rest:
\* isSpinning false and angularVelocity zero, whatever pointer events and
\* prize updates fall between the frames.
SpinSettles == isSpinning ~> (~isSpinning /\ angularVelocity = 0)

\* a spin of more than a turn has come to rest
SpinHasSettled ==
    /\ ~isSpinning
    /\ angularVelocity = 0
    /\ spinEndCalls # <<>>
    /\ Abs(rotation) > TwoPi

\* C3: the index of every onSpinEnd call is the segment of width 2PI/n that
\* holds -PI/2 - rotation reduced to [0, 2PI), for the rotation and the
\* prize count n of the settling frame, and is one of 0 .. n-1.
SettleIndexResolved ==
    \A c \in 1 .. Len(spinEndCalls) :
        LET call == spinEndCalls[c]
            reduced == (-(Pi \div 2) - call.rotation) % TwoPi
        IN  /\ call.count >= MinPrizes
            /\ call.index \in 0 .. call.count - 1
            /\ call.index * TwoPi <= reduced * call.count
            /\ reduced * call.count < (call.index + 1) * TwoPi

\* a spin backwards through more than a turn settled on a replaced list
SettledOnReplacedList ==
    \E c \in 1 .. Len(spinEndCalls) :
        /\ spinEndCalls[c].count # Len(DefaultPrizes)
        /\ spinEndCalls[c].rotation < -TwoPi

\* C4: the winning index of a rotation is that of the rotation with any
\* number of whole turns added or taken away.
ResolveIsPeriodic ==
    probe.kind = "turn" => probe.index = sweep.index

\* a rotation and the same rotation turns back resolve alike
ResolvedTurnsBack ==
    /\ probe.kind = "turn"
    /\ probe.rotation < sweep.rotation - TwoPi
    /\ sweep.rotation > 0
    /\ sweep.index > 0

\* C5: over one full turn of the rotation every index of 0 .. n-1 is the
\* winner on one run of neighbouring rotations, all runs equally long: of
\* the n * SubSteps evenly spaced rotations each index takes SubSteps, and
\* round the turn the winner changes n times.
SweepCoversSegments ==
    /\ sweep.count > 0 =>
          /\ sweep.index \in 0 .. sweep.count - 1
          /\ \A i \in 0 .. sweep.count - 1 : sweep.seen[i] <= SubSteps
          /\ sweep.runs <= sweep.count
    /\ (sweep.count > 0 /\ sweep.k = sweep.count * SubSteps) =>
          /\ \A i \in 0 .. sweep.count - 1 : sweep.seen[i] = SubSteps
          /\ sweep.runs = sweep.count

\* a sweep of a wheel of twelve is complete
SweepOfTwelveDone ==
    /\ sweep.count = MaxPrizes
    /\ sweep.k = sweep.count * SubSteps
    /\ sweep.start < 0

\* C6: six prizes at rotation 0 resolve to index 4 and at rotation PI/3 to
\* index 3; for every prize count and rotation, one segment more of rotation
\* lowers the winning index by one, modulo the prize count.
SegmentStepLowersIndex ==
    /\ (sweep.count = 6 /\ sweep.rotation = 0) => sweep.index = 4
    /\ (sweep.count = 6 /\ sweep.rotation = Pi \div 3) => sweep.index = 3
    /\ probe.kind = "segment" =>
          probe.index = (sweep.index - 1) % sweep.count

\* six prizes at rotation 0, then one segment on
SixPrizesOneSegmentOn ==
    /\ sweep.count = 6
    /\ sweep.rotation = 0
    /\ sweep.index = 4
    /\ probe.kind = "segment"
    /\ probe.rotation = Pi \div 3

\* C7: while the wheel is spinning, a step that changes any field of the
\* wheel is a frame (update): no press, move or release changes rotation,
\* angularVelocity, the flags, the sample window or the last angle and time.
SpinIgnoresGestures ==
    [][(isSpinning /\ wheelState' # wheelState) => update]_vars

\* a spin under way after a drag that took samples
SpinUnderWay ==
    /\ isSpinning
    /\ velocityHistory # <<>>
    /\ Abs(angularVelocity) < SpinThreshold
    /\ Abs(angularVelocity) > MinVelocity

\* C8: a release of a dragged wheel sets isSpinning exactly when the window
\* holds samples whose mean, times 0.8, is beyond 3 rad/s either way (the
\* clamp to 50 rad/s cannot change that); with an empty window it leaves
\* angularVelocity at 0 and starts no spin.  A window averaging 2.0 rad/s
\* starts no spin and one averaging 10.0 rad/s does.
ReleaseThreshold ==
    [][(isDragging /\ ~isDragging') =>
        LET total == SumVelocity(velocityHistory)
            held == Len(velocityHistory)
        IN  /\ (isSpinning' /\ ~isSpinning) <=>
                   (held > 0 /\
                    DampingTenths * Abs(total) > 10 * SpinThreshold * held)
            /\ held = 0 => (angularVelocity' = 0 /\ angularVelocity = 0)
            /\ ~entersSpin(releaseVelocity(
                    << [velocity |-> 1000, time |-> 0],
                       [velocity |-> 3000, time |-> 50] >>))
            /\ entersSpin(releaseVelocity(
                    << [velocity |-> 15000, time |-> 0],
                       [velocity |-> 5000, time |-> 50] >>))]_vars

\* a wheel released below the spin threshold from a window of two samples
ReleasedBelowThreshold ==
    /\ ~isDragging /\ ~isSpinning
    /\ Len(velocityHistory) = 2
    /\ angularVelocity # 0
    /\ coastFrames = 0

\* C9: a press starts a drag exactly when the wheel is not spinning and the
\* position is within the radius of the centre.  Such a press sets
\* isDragging; any other leaves isDragging, rotation, angularVelocity and the
\* window as they were; and a drag begins only at the angle of a position
\* within the radius, with the window emptied and the velocity zeroed.
StartAcceptance ==
    [][/\ \A pos \in Positions, d \in PressDelays :
             handleStart(pos, d) =>
                 IF ~isSpinning /\
                    pos.x * pos.x + pos.y * pos.y <= Radius * Radius
                 THEN isDragging'
                 ELSE UNCHANGED << isDragging, rotation, angularVelocity,
                                   velocityHistory >>
       /\ (~isDragging /\ isDragging') =>
             /\ ~isSpinning
             /\ \E pos \in Positions :
                   /\ pos.x * pos.x + pos.y * pos.y <= Radius * Radius
                   /\ lastAngle' = getAngle(pos)
             /\ velocityHistory' = <<>>
             /\ angularVelocity' = 0
             /\ rotation' = rotation]_vars

\* a drag has begun and no move has followed yet
DragBegun ==
    /\ isDragging
    /\ moves = 0
    /\ drags = 1
    /\ velocityHistory = <<>>

\* C10: on a wheel that is not being dragged, a step that changes a field of
\* the wheel or calls onSpinEnd is a frame (update) or a press that starts a
\* drag: a move and a release change nothing and call nothing.
IdleIgnoresMoveAndEnd ==
    [][(~isDragging /\
        (wheelState' # wheelState \/ spinEndCalls' # spinEndCalls)) =>
            (update \/ isDragging')]_vars

\* a released wheel at rest, its last angle and window left by the drag
IdleAfterDrag ==
    /\ ~isDragging /\ ~isSpinning
    /\ drags = 1
    /\ lastAngle # 0
    /\ angularVelocity = 0
    /\ velocityHistory # <<>>

OneRecordPerSettle ==
    recordsAdded + Len(pendingSaves) + (Len(spinEndCalls) - resultsShown)
        = Len(spinEndCalls)

\* C13: from a prize list of 2 to 12 entries, any run of addPrize, remove,
\* rename, resetPrizes and savePrizes keeps the list, and the wheel's list,
\* at 2 to 12 entries; addPrize on a list of 12 and a remove on a list of 2
\* leave the list as it is.
PrizeCountKept ==
    /\ [](/\ Len(prizes) \in MinPrizes .. MaxPrizes
          /\ Len(wheelPrizes) \in MinPrizes .. MaxPrizes)
    /\ [][(Len(prizes) = MaxPrizes /\ addPrize) =>
              UNCHANGED << prizes, wheelPrizes >>]_vars
    /\ [][\A index \in EditRows(prizes) :
              (Len(prizes) = MinPrizes /\ handlePrizeEdit(index, "remove", ""))
                  => UNCHANGED << prizes, wheelPrizes >>]_vars

\* a list of 12 that two editor operations have left whole
FullListKept ==
    /\ prizes = storedList(MaxPrizes)
    /\ wheelPrizes = prizes
    /\ edits = MaxEdits
    /\ saving = 0

\* the angles a resolver run hands to normalize, and the rotations themselves
NormalizedAngles ==
    { sweep.rotation, -(Pi \div 2) - sweep.rotation }
        \cup (IF probe.kind = "none" THEN {}
              ELSE { probe.rotation, -(Pi \div 2) - probe.rotation })

\* C14: normalize(x) is defined for every angle x of either sign, lies in
\* [0, 2PI), differs from x by whole turns, and normalize(normalize(x)) is
\* normalize(x).
NormalizeIdempotent ==
    \A x \in NormalizedAngles :
        /\ normalize(x) \in 0 .. TwoPi - 1
        /\ (normalize(x) - x) % TwoPi = 0
        /\ normalize(normalize(x)) = normalize(x)

\* normalize met an angle more than a turn below zero and one more than a
\* turn above it
NormalizedBothSigns ==
    /\ \E x \in NormalizedAngles : x < -TwoPi /\ normalize(x) > 0
    /\ \E x \in NormalizedAngles : x > TwoPi /\ normalize(x) > 0
    /\ probe.kind = "segment"

\* C15: isDragging and isSpinning are never both true.  isSpinning becomes
\* true only in the release of a drag whose window gives a velocity beyond
\* the spin threshold, and becomes false only in the frame that finds the
\* velocity at or below minVelocity and calls onSpinEnd.
DragSpinExclusive ==
    /\ [](~(isDragging /\ isSpinning))
    /\ [][(~isSpinning /\ isSpinning') =>
              /\ isDragging /\ ~isDragging'
              /\ velocityHistory # <<>>
              /\ entersSpin(releaseVelocity(velocityHistory))]_vars
    /\ [][(isSpinning /\ ~isSpinning') =>
              /\ Abs(angularVelocity) <= MinVelocity
              /\ angularVelocity' = 0
              /\ Len(spinEndCalls') = Len(spinEndCalls) + 1
              /\ ~isDragging /\ ~isDragging']_vars

\* the wheel has just been released into a spin
JustReleasedSpinning ==
    /\ isSpinning /\ ~isDragging
    /\ Len(velocityHistory) = 1
    /\ Abs(angularVelocity) > 2 * SpinThreshold
    /\ rotation = lastAngle

\* C16: a frame on a wheel that is not dragged and faster than minVelocity
\* multiplies angularVelocity by 0.985 and then adds the new angularVelocity
\* times 0.016 to rotation, and changes no flag nor anything else; a frame
\* on a dragged wheel, and one on a wheel that is not spinning and no faster
\* than minVelocity, change nothing.
FrameEffect ==
    [][update =>
         IF ~isDragging /\ Abs(angularVelocity) > MinVelocity
         THEN /\ angularVelocity' =
                     TruncDiv(angularVelocity * FrictionPerMille, 1000)
              /\ rotation' = rotation + angularVelocity' * StepMicros
              /\ UNCHANGED << isDragging, isSpinning, lastAngle, lastTime,
                              velocityHistory, wheelPrizes, spinEndCalls >>
         ELSE (isDragging \/ ~isSpinning) =>
                 UNCHANGED << wheelState, wheelPrizes, spinEndCalls >>]_vars

\* a frame has moved a released wheel that is not spinning
CoastedOneFrame ==
    /\ ~isDragging /\ ~isSpinning
    /\ coastFrames = 1
    /\ Abs(angularVelocity) > MinVelocity
    /\ rotation # lastAngle

\* C17: a release takes its velocity from the samples of the 100 ms before
\* the release and from no older one: with no sample that recent it starts
\* no spin, whatever the drag did earlier, and otherwise it starts a spin as
\* the mean of the recent samples decides.
ReleaseUsesTrailingWindow ==
    [][(isDragging /\ ~isDragging') =>
         LET recent == Filter(velocityHistory, releasedAt' - WindowMs)
         IN  /\ recent = <<>> => ~isSpinning'
             /\ recent # <<>> =>
                   (isSpinning' <=> entersSpin(releaseVelocity(recent)))]_vars

\* C18 as stated: the delta an accepted move adds to rotation lies in the
\* half-open range (-PI, PI]; a raw difference of the angles outside that
\* range is corrected by one 2PI, one inside it is used as it is.
DeltaHalfOpen ==
    [][moves' = moves + 1 =>
         LET raw == lastAngle' - lastAngle
             delta == rotation' - rotation
         IN  (lastAngle \in -Pi .. Pi /\ lastAngle' \in -Pi .. Pi) =>
                /\ delta > -Pi /\ delta <= Pi
                /\ raw > Pi => delta = raw - TwoPi
                /\ raw <= -Pi => delta = raw + TwoPi
                /\ (raw > -Pi /\ raw <= Pi) => delta = raw]_vars

\* C18, amended: the delta an accepted move adds to rotation lies in the
\* closed range [-PI, PI]; a raw difference above PI is lowered by 2PI once,
\* one below -PI is raised by 2PI once, and one within [-PI, PI], the value
\* -PI included, is used as it is.
DeltaWithinHalfTurn ==
    [][moves' = moves + 1 =>
         LET raw == lastAngle' - lastAngle
             delta == rotation' - rotation
         IN  (lastAngle \in -Pi .. Pi /\ lastAngle' \in -Pi .. Pi) =>
                /\ delta >= -Pi /\ delta <= Pi
                /\ raw > Pi => delta = raw - TwoPi
                /\ raw < -Pi => delta = raw + TwoPi
                /\ (raw >= -Pi /\ raw <= Pi) => delta = raw]_vars

\* the first move of a drag went from angle PI to angle 0: a raw difference
\* of -PI
MovedHalfTurnBack ==
    /\ isDragging
    /\ moves = 1
    /\ lastAngle = 0
    /\ rotation = -Pi

\* the samples of h that are younger than age ms at time now, in order
Younger(h, now, age) == SelectSeq(h, LAMBDA s : now - s.time < age)

\* the samples of h that are not older than age ms at time now, in order
NotOlder(h, now, age) == SelectSeq(h, LAMBDA s : now - s.time <= age)

\* C19 as stated: after a move with dt > 0 the window is the earlier samples
\* that are not older than 100 ms at that move, in order, and then the new
\* sample; a move with dt = 0 adds its delta to rotation and leaves the
\* window alone; a press empties the window.
WindowKeepsUpTo100 ==
    [][/\ moves' = moves + 1 =>
            LET dt == lastTime' - lastTime
                delta == deltaAngle(lastAngle', lastAngle)
            IN  /\ rotation' = rotation + delta
                /\ velocityHistory' =
                     IF dt > 0
                     THEN Append(NotOlder(velocityHistory, lastTime',
                                          WindowMs),
                                 [velocity |-> TruncDiv(delta, dt),
                                  time |-> lastTime'])
                     ELSE velocityHistory
       /\ drags' = drags + 1 => velocityHistory' = <<>>]_vars

\* C19, amended: after a move with dt > 0 the window is the earlier samples
\* that are less than 100 ms old at that move, in order, and then the new
\* sample: a sample of 100 ms or more is evicted.  A move with dt = 0 adds
\* its delta to rotation and leaves the window alone; a press empties the
\* window.
WindowKeepsUnder100 ==
    [][/\ moves' = moves + 1 =>
            LET dt == lastTime' - lastTime
                delta == deltaAngle(lastAngle', lastAngle)
            IN  /\ rotation' = rotation + delta
                /\ velocityHistory' =
                     IF dt > 0
                     THEN Append(Younger(velocityHistory, lastTime',
                                         WindowMs),
                                 [velocity |-> TruncDiv(delta, dt),
                                  time |-> lastTime'])
                     ELSE velocityHistory
       /\ drags' = drags + 1 => velocityHistory' = <<>>]_vars

\* the third move came 100 ms after the first and 50 ms after the second:
\* the window holds the second and the third sample only
EvictedAt100 ==
    /\ isDragging
    /\ moves = 3
    /\ Len(velocityHistory) = 2
    /\ velocityHistory[2].time = lastTime
    /\ velocityHistory[1].time = lastTime - 50
    /\ drags = 1
    /\ lastTime = 550

\* C20: a release that enters spinning leaves an angularVelocity of the sign
\* of the clamped velocity it perturbed, more than 0.5 and at most 52.5 rad/s
\* in magnitude, so that the next frame integrates and does not settle; a
\* release that does not enter spinning leaves at most 3 rad/s.
PerturbedSpinKeepsGoing ==
    [][(isDragging /\ ~isDragging') =>
         IF isSpinning'
         THEN LET v == releaseVelocity(velocityHistory)
              IN  /\ v # 0 /\ angularVelocity' # 0
                  /\ (v > 0) = (angularVelocity' > 0)
                  /\ Abs(angularVelocity') > SpinThreshold - HalfPerturbation
                  /\ Abs(angularVelocity') <= MaxVelocity + HalfPerturbation
                  /\ ~isDragging' /\ Abs(angularVelocity') > MinVelocity
         ELSE Abs(angularVelocity') <= SpinThreshold]_vars

\* a spin entered just above the threshold and perturbed against its sense
SlowestSpinEntered ==
    /\ isSpinning
    /\ coastFrames = 0
    /\ Abs(angularVelocity) < SpinThreshold - HalfPerturbation + 10
    /\ Abs(releaseVelocity(velocityHistory)) > SpinThreshold

\* C21: for every settle, the prize handed to showResult is a defined prize,
\* and the name shown to the user and the name recorded in the history are
\* the name of the entry, at the winning index, of the list the wheel
\* resolved against at the settle, whatever the editor did before the spin,
\* during it or while the result was on its way.
ShownPrizeIsDrawnPrize ==
    \A k \in 1 .. Len(spinEndCalls) :
        /\ spinEndCalls[k].prize # Undefined
        /\ captures[k].shown \in { None, spinEndCalls[k].drawn }
        /\ captures[k].recorded \in { None, spinEndCalls[k].drawn }

\* C22: the list the wheel draws and resolves against changes only in the
\* step of savePrizes that follows a passed validation and calls
\* updatePrizes: an add, a remove, a rename or a reset in the editor leaves
\* the wheel's list, its length and its names, as it was.
WheelListChangesOnSave ==
    [][wheelPrizes' # wheelPrizes => savePrizesResume]_vars

\* the timestamps of h do not grow from the front to the back
NewestFirst(h) ==
    \A j \in 1 .. Len(h) - 1 : h[j].timestamp >= h[j + 1].timestamp

\* C23: under any interleaving of the two halves of addToHistory and of
\* clearHistory the history holds at most 50 records, newest first by
\* timestamp; a completed addToHistory puts its record, stamped with the
\* clock, in front of the records it found, the last of them, the oldest,
\* leaving when they were 50; a completed clearHistory leaves the history
\* empty.
HistoryKeepsNewestFifty ==
    /\ [](Len(history) <= HistoryLimit /\ NewestFirst(history))
    /\ [][recordsAdded' # recordsAdded =>
            LET kept == IF Len(history) = HistoryLimit
                        THEN HistoryLimit - 1 ELSE Len(history)
            IN  /\ Len(history') = kept + 1
                /\ history'[1].timestamp = wallClock'
                /\ SubSeq(history', 2, kept + 1) = SubSeq(history, 1, kept)
                /\ \A j \in 1 .. Len(history) :
                      history[Len(history)].timestamp
                          <= history[j].timestamp]_vars
    /\ [][clearing' < clearing => history' = <<>>]_vars

\* two records were added to a full history, the second one a millisecond
\* after the first, and the two oldest records have left
TwoOldestEvicted ==
    /\ Len(history) = HistoryLimit
    /\ recordsAdded = 2
    /\ history[1].timestamp > history[2].timestamp
    /\ history[HistoryLimit].timestamp = 2

\* request r returns its response in this step
returning(r) == requests[r].pc # "done" /\ requests'[r].pc = "done"

\* C24: a POST of at least 2 prizes returns success with the table holding
\* exactly the posted names in the posted order, sort_order 1 to k, and a GET
\* that follows it returns exactly that list, whatever other requests run
\* between its awaits; a POST of fewer than 2 prizes returns 400 with the
\* table as it was.
PostReplacesAll ==
    [][\A r \in 1 .. Len(requests) :
          /\ (requests[r].method = "POST" /\ returning(r)) =>
                IF Len(requests[r].prizes) < MinPrizes
                THEN /\ requests'[r].response.status = 400
                     /\ table' = table
                ELSE /\ requests'[r].response.success
                     /\ table' = rowsOf(requests[r].prizes)
          /\ (requests[r].method = "GET" /\ returning(r)) =>
                \A p \in 1 .. Len(requests) :
                    ( /\ requests[p].method = "POST"
                      /\ requests[p].response.success
                      /\ requests[p].order = responded ) =>
                        requests'[r].response.data
                            = rowsOf(requests[p].prizes)]_vars

====
